---------------------------- MODULE Spec2Model ----------------------------
(***************************************************************************)
(* A model of gmail_digest.py: the fetch / filter / summarise loop of      *)
(* main, the classifier, the follow-up detector, the summariser's dedup    *)
(* guard, the digest builder, and the send / log / report tail of a run.   *)
(*                                                                         *)
(* A Python str is a sequence of characters; a character is a one-element  *)
(* TLA+ string.  The few non-ASCII characters the program handles are      *)
(* named: "a~" and "A~" (a / A with tilde), "U1F4EC" (the mailbox emoji of *)
(* the digest title), "U2014" (em dash), "U2026" (horizontal ellipsis).    *)
(***************************************************************************)
EXTENDS Integers, Sequences, FiniteSets, TLC

(***************************************************************************)
(* Characters: the classes Python's str.lower, \w, \s and \b rely on.      *)
(***************************************************************************)
LowerLetters ==
  {"a", "b", "c", "d", "e", "f", "g", "h", "i", "j", "k", "l", "m", "n", "o",
   "p", "q", "r", "s", "t", "u", "v", "w", "x", "y", "z", "a~"}

UpperLetters ==
  {"A", "B", "C", "D", "E", "F", "G", "H", "I", "J", "K", "L", "M", "N", "O",
   "P", "Q", "R", "S", "T", "U", "V", "W", "X", "Y", "Z", "A~"}

Digits == {"0", "1", "2", "3", "4", "5", "6", "7", "8", "9"}

WordChars == LowerLetters \cup UpperLetters \cup Digits \cup {"_"}

SpaceChars == {" ", "\t", "\n"}

ToLower ==
  [A |-> "a", B |-> "b", C |-> "c", D |-> "d", E |-> "e", F |-> "f", G |-> "g",
   H |-> "h", I |-> "i", J |-> "j", K |-> "k", L |-> "l", M |-> "m", N |-> "n",
   O |-> "o", P |-> "p", Q |-> "q", R |-> "r", S |-> "s", T |-> "t", U |-> "u",
   V |-> "v", W |-> "w", X |-> "x", Y |-> "y", Z |-> "z"]

\* str.lower() on one character
LowerChar(c) ==
  IF c = "A~" THEN "a~" ELSE IF c \in DOMAIN ToLower THEN ToLower[c] ELSE c

\* str.lower()
Lower(s) == [k \in 1..Len(s) |-> LowerChar(s[k])]

\* str.startswith
StartsWith(s, p) == Len(p) <= Len(s) /\ SubSeq(s, 1, Len(p)) = p

\* s[:n]
Prefix(s, n) == SubSeq(s, 1, IF n < Len(s) THEN n ELSE Len(s))

(***************************************************************************)
(* Regular expressions.  A compiled pattern is a record [label, icase,     *)
(* dotall, re]; re is the syntax tree Python's parser builds for the       *)
(* pattern text.  Ends(re, s, i, dotall) is the set of positions at which  *)
(* a match of re that starts after the first i characters of s can end.    *)
(***************************************************************************)
IsWordAt(s, k) == k >= 1 /\ k <= Len(s) /\ s[k] \in WordChars

\* \b between position i and i + 1
AtBoundary(s, i) == IsWordAt(s, i) # IsWordAt(s, i + 1)

RECURSIVE Ends(_, _, _, _)
RECURSIVE CatEnds(_, _, _, _, _)
RECURSIVE RepEnds(_, _, _, _, _)

CatEnds(xs, k, s, from, dotall) ==
  IF k > Len(xs) \/ from = {} THEN from
  ELSE CatEnds(xs, k + 1, s, UNION {Ends(xs[k], s, i, dotall) : i \in from}, dotall)

\* positions reachable by one or more further matches of x from `frontier`
RepEnds(x, s, frontier, acc, dotall) ==
  LET new == UNION {Ends(x, s, i, dotall) : i \in frontier} \ acc
  IN  IF new = {} THEN acc ELSE RepEnds(x, s, new, acc \cup new, dotall)

Ends(re, s, i, dotall) ==
  CASE re.t = "str" ->
         IF i + Len(re.cs) <= Len(s) /\ SubSeq(s, i + 1, i + Len(re.cs)) = re.cs
         THEN {i + Len(re.cs)} ELSE {}
    [] re.t = "in" -> IF i < Len(s) /\ s[i + 1] \in re.cs THEN {i + 1} ELSE {}
    [] re.t = "space" -> IF i < Len(s) /\ s[i + 1] \in SpaceChars THEN {i + 1} ELSE {}
    [] re.t = "any" -> IF i < Len(s) /\ (dotall \/ s[i + 1] # "\n") THEN {i + 1} ELSE {}
    [] re.t = "wb" -> IF AtBoundary(s, i) THEN {i} ELSE {}
    [] re.t = "bol" -> IF i = 0 THEN {i} ELSE {}
    [] re.t = "cat" -> CatEnds(re.xs, 1, s, {i}, dotall)
    [] re.t = "alt" -> UNION {Ends(re.xs[k], s, i, dotall) : k \in DOMAIN re.xs}
    [] re.t = "rep" ->
         LET one == Ends(re.x, s, i, dotall)
             more == IF re.many THEN RepEnds(re.x, s, one, one, dotall) ELSE one
         IN  IF re.lo = 0 THEN {i} \cup more ELSE more

\* pat.search(s): a match starting anywhere.  With re.I every literal of the
\* patterns is lower case, so matching the lower-cased text is the same.
Search(pat, s) ==
  LET h == IF pat.icase THEN Lower(s) ELSE s
  IN  \E i \in 0..Len(h) : Ends(pat.re, h, i, pat.dotall) # {}

(***************************************************************************)
(* The rule tables, translated pattern by pattern.                         *)
(***************************************************************************)
RuleFamily ==
  [label |-> "Family", icase |-> TRUE, dotall |-> FALSE,
   re |-> [t |-> "cat", xs |-> <<[t |-> "wb"], [t |-> "alt", xs |-> <<[t |-> "str", cs |-> <<"g", "i", "l", "m", "a", "r", "a">>],
      [t |-> "str", cs |-> <<"l", "u", "c", "a", "s">>],
      [t |-> "cat", xs |-> <<[t |-> "str", cs |-> <<"j", "o">>], [t |-> "in", cs |-> {"a", "a~"}], [t |-> "str", cs |-> <<"o">>], [t |-> "rep", lo |-> 0, many |-> FALSE, x |-> [t |-> "str", cs |-> <<" ">>]], [t |-> "str", cs |-> <<"p", "e", "d", "r", "o">>]>>],
      [t |-> "str", cs |-> <<"a", "l", "v", "a", "r", "o">>],
      [t |-> "str", cs |-> <<"s", "o", "n", "i", "a">>],
      [t |-> "cat", xs |-> <<[t |-> "str", cs |-> <<"m">>], [t |-> "in", cs |-> {"a~", "a"}], [t |-> "str", cs |-> <<"e">>]>>],
      [t |-> "str", cs |-> <<"p", "a", "i">>]>>], [t |-> "wb"]>>]]

RuleSchool ==
  [label |-> "School", icase |-> TRUE, dotall |-> FALSE,
   re |-> [t |-> "alt", xs |-> <<[t |-> "str", cs |-> <<"h", "i", "g", "h", "l", "a", "n", "d", "s">>],
      [t |-> "str", cs |-> <<"n", "a", "p", "e", "r", "v", "i", "l", "l", "e", "2", "0", "3">>],
      [t |-> "str", cs |-> <<"t", "a", "l", "k", "2", "0", "3">>],
      [t |-> "cat", xs |-> <<[t |-> "str", cs |-> <<"k", "e", "n", "n", "e", "d", "y">>], [t |-> "rep", lo |-> 1, many |-> TRUE, x |-> [t |-> "space"]], [t |-> "str", cs |-> <<"j", "u", "n", "i", "o", "r">>], [t |-> "rep", lo |-> 1, many |-> TRUE, x |-> [t |-> "space"]], [t |-> "str", cs |-> <<"h", "i", "g", "h">>]>>],
      [t |-> "str", cs |-> <<"e", "l", "e", "m", "e", "n", "t", "a", "r", "y">>],
      [t |-> "str", cs |-> <<"t", "e", "a", "c", "h", "e", "r">>],
      [t |-> "cat", xs |-> <<[t |-> "str", cs |-> <<"d", "i", "s", "t", "r", "i", "c", "t">>], [t |-> "rep", lo |-> 0, many |-> TRUE, x |-> [t |-> "space"]], [t |-> "str", cs |-> <<"2", "0", "3">>]>>],
      [t |-> "str", cs |-> <<"i", "n", "f", "i", "n", "i", "t", "e", "c", "a", "m", "p", "u", "s">>],
      [t |-> "str", cs |-> <<"s", "c", "r", "e", "e", "n", "i", "n", "g", " ", "r", "e", "s", "u", "l", "t", "s">>],
      [t |-> "str", cs |-> <<"l", "a", "n", "g", "u", "a", "g", "e", " ", "a", "c", "q", "u", "i", "s", "i", "t", "i", "o", "n">>]>>]]

RuleActivities ==
  [label |-> "Activities", icase |-> TRUE, dotall |-> FALSE,
   re |-> [t |-> "alt", xs |-> <<[t |-> "str", cs |-> <<"s", "o", "c", "c", "e", "r">>],
      [t |-> "cat", xs |-> <<[t |-> "wb"], [t |-> "str", cs |-> <<"n", "s", "a">>], [t |-> "wb"]>>],
      [t |-> "str", cs |-> <<"i", "c", "e", " ", "c", "r", "e", "a", "m", " ", "s", "o", "c", "i", "a", "l">>],
      [t |-> "str", cs |-> <<"t", "o", "u", "r">>],
      [t |-> "str", cs |-> <<"c", "a", "m", "p">>],
      [t |-> "str", cs |-> <<"c", "l", "i", "n", "i", "c">>]>>]]

RuleMarketUpdate ==
  [label |-> "Market Update", icase |-> TRUE, dotall |-> FALSE,
   re |-> [t |-> "alt", xs |-> <<[t |-> "str", cs |-> <<"u", "s", "i", "m", "i", "n", "a", "s">>],
      [t |-> "str", cs |-> <<"a", "n", "a", "l", "i", "s", "e", "s", "@", "b", "b">>],
      [t |-> "cat", xs |-> <<[t |-> "wb"], [t |-> "str", cs |-> <<"b", "b", "-", "b", "i">>], [t |-> "wb"]>>],
      [t |-> "str", cs |-> <<"@", "v", "a", "l", "o", "r", ".", "c", "o", "m">>],
      [t |-> "cat", xs |-> <<[t |-> "str", cs |-> <<"v", "a", "l", "o", "r">>], [t |-> "wb"]>>],
      [t |-> "cat", xs |-> <<[t |-> "str", cs |-> <<"m", "a", "r", "k", "e", "t">>], [t |-> "rep", lo |-> 1, many |-> TRUE, x |-> [t |-> "space"]], [t |-> "str", cs |-> <<"u", "p", "d", "a", "t", "e">>]>>]>>]]

RuleBillsFinance ==
  [label |-> "Bills & Finance", icase |-> TRUE, dotall |-> FALSE,
   re |-> [t |-> "alt", xs |-> <<[t |-> "str", cs |-> <<"i", "n", "v", "o", "i", "c", "e">>],
      [t |-> "str", cs |-> <<"b", "i", "l", "l">>],
      [t |-> "str", cs |-> <<"p", "a", "y", "m", "e", "n", "t">>],
      [t |-> "str", cs |-> <<"t", "r", "a", "n", "s", "f", "e", "r">>],
      [t |-> "str", cs |-> <<"i", "n", "v", "e", "s", "t", "m", "e", "n", "t">>],
      [t |-> "str", cs |-> <<"s", "t", "a", "t", "e", "m", "e", "n", "t">>],
      [t |-> "str", cs |-> <<"f", "u", "n", "d", "e", "d">>],
      [t |-> "str", cs |-> <<"u", "s", "a", "g", "e", " ", "l", "i", "m", "i", "t", "s">>],
      [t |-> "str", cs |-> <<"c", "a", "r", "t", "o", "l", "a">>],
      [t |-> "str", cs |-> <<"b", "o", "l", "e", "t", "o">>],
      [t |-> "str", cs |-> <<"f", "a", "t", "u", "r", "a">>],
      [t |-> "str", cs |-> <<"o", "p", "e", "n", "a", "i">>]>>]]

RuleHousing ==
  [label |-> "Housing", icase |-> TRUE, dotall |-> FALSE,
   re |-> [t |-> "alt", xs |-> <<[t |-> "str", cs |-> <<"r", "e", "n", "t", "a", "l">>],
      [t |-> "str", cs |-> <<"l", "e", "a", "s", "e">>],
      [t |-> "str", cs |-> <<"p", "r", "o", "p", "e", "r", "t", "y">>],
      [t |-> "cat", xs |-> <<[t |-> "str", cs |-> <<"r", "e", "a", "l", "t">>], [t |-> "alt", xs |-> <<[t |-> "str", cs |-> <<"y">>],
      [t |-> "str", cs |-> <<"o", "r">>]>>]>>],
      [t |-> "str", cs |-> <<"z", "i", "l", "l", "o", "w">>],
      [t |-> "str", cs |-> <<"r", "e", "d", "f", "i", "n">>],
      [t |-> "str", cs |-> <<"m", "l", "s", " ", "l", "i", "s", "t", "i", "n", "g">>]>>]]

RulePurchasesOffers ==
  [label |-> "Purchases & Offers", icase |-> TRUE, dotall |-> FALSE,
   re |-> [t |-> "alt", xs |-> <<[t |-> "str", cs |-> <<"o", "r", "d", "e", "r">>],
      [t |-> "str", cs |-> <<"r", "e", "c", "e", "i", "p", "t">>],
      [t |-> "str", cs |-> <<"r", "e", "w", "a", "r", "d">>],
      [t |-> "str", cs |-> <<"p", "r", "o", "m", "o">>],
      [t |-> "str", cs |-> <<"o", "f", "f", "e", "r">>],
      [t |-> "str", cs |-> <<"s", "h", "o", "p", "p", "i", "n", "g">>],
      [t |-> "str", cs |-> <<"a", "m", "a", "z", "o", "n">>]>>]]

RuleMeetingsInvites ==
  [label |-> "Meetings & Invites", icase |-> TRUE, dotall |-> FALSE,
   re |-> [t |-> "alt", xs |-> <<[t |-> "str", cs |-> <<"i", "n", "v", "i", "t", "a", "t", "i", "o", "n">>],
      [t |-> "str", cs |-> <<"e", "v", "e", "n", "t">>],
      [t |-> "str", cs |-> <<"m", "e", "e", "t">>],
      [t |-> "cat", xs |-> <<[t |-> "str", cs |-> <<"r", "e", "u", "n", "i">>], [t |-> "in", cs |-> {"a~", "a"}], [t |-> "str", cs |-> <<"o">>]>>],
      [t |-> "str", cs |-> <<".", "i", "c", "s">>],
      [t |-> "str", cs |-> <<"c", "a", "l", "e", "n", "d", "a", "r">>]>>]]

RuleNewsletters ==
  [label |-> "Newsletters", icase |-> TRUE, dotall |-> FALSE,
   re |-> [t |-> "alt", xs |-> <<[t |-> "str", cs |-> <<"m", "c", "k", "i", "n", "s", "e", "y", ".", "c", "o", "m">>],
      [t |-> "cat", xs |-> <<[t |-> "str", cs |-> <<"e", "m", "a", "i", "l">>], [t |-> "rep", lo |-> 0, many |-> FALSE, x |-> [t |-> "str", cs |-> <<"s">>]], [t |-> "str", cs |-> <<".", "h", "b", "r", ".", "o", "r", "g">>]>>],
      [t |-> "str", cs |-> <<"h", "b", "r", ".", "o", "r", "g">>],
      [t |-> "str", cs |-> <<"@", "i", "n", "t", "e", "r", "a", "c", "t", "i", "v", "e", ".", "w", "s", "j", ".", "c", "o", "m">>],
      [t |-> "str", cs |-> <<"n", "e", "w", "s", "l", "e", "t", "t", "e", "r">>],
      [t |-> "str", cs |-> <<"w", "e", "e", "k", "l", "y", " ", "d", "i", "g", "e", "s", "t">>],
      [t |-> "str", cs |-> <<"d", "i", "g", "e", "s", "t", " ", "u", "p", "d", "a", "t", "e">>]>>]]

RuleWork ==
  [label |-> "Work", icase |-> TRUE, dotall |-> FALSE,
   re |-> [t |-> "str", cs |-> <<"@", "a", "r", "c", "e", "l", "o", "r", "m", "i", "t", "t", "a", "l">>]]

RulePersonal ==
  [label |-> "Personal", icase |-> TRUE, dotall |-> FALSE,
   re |-> [t |-> "cat", xs |-> <<>>]]

RuleOther ==
  [label |-> "Other", icase |-> FALSE, dotall |-> TRUE,
   re |-> [t |-> "rep", lo |-> 0, many |-> TRUE, x |-> [t |-> "any"]]]

CATEGORY_RULES ==
  <<RuleFamily, RuleSchool, RuleActivities, RuleMarketUpdate, RuleBillsFinance, RuleHousing, RulePurchasesOffers, RuleMeetingsInvites, RuleNewsletters, RuleWork, RulePersonal, RuleOther>>

ActSendReply ==
  [label |-> "Send reply", icase |-> TRUE, dotall |-> FALSE,
   re |-> [t |-> "alt", xs |-> <<[t |-> "cat", xs |-> <<[t |-> "str", cs |-> <<"p", "l", "e", "a", "s", "e">>], [t |-> "rep", lo |-> 1, many |-> TRUE, x |-> [t |-> "space"]], [t |-> "str", cs |-> <<"r", "e", "p", "l", "y">>]>>],
      [t |-> "cat", xs |-> <<[t |-> "str", cs |-> <<"n", "e", "e", "d">>], [t |-> "rep", lo |-> 1, many |-> TRUE, x |-> [t |-> "space"]], [t |-> "str", cs |-> <<"r", "e", "s", "p", "o", "n", "s", "e">>]>>],
      [t |-> "cat", xs |-> <<[t |-> "str", cs |-> <<"a", "w", "a", "i", "t", "i", "n", "g">>], [t |-> "rep", lo |-> 1, many |-> TRUE, x |-> [t |-> "space"]], [t |-> "str", cs |-> <<"y", "o", "u", "r">>], [t |-> "rep", lo |-> 1, many |-> TRUE, x |-> [t |-> "space"]], [t |-> "str", cs |-> <<"r", "e", "p", "l", "y">>]>>]>>]]

ActProvideDocument ==
  [label |-> "Provide document", icase |-> TRUE, dotall |-> FALSE,
   re |-> [t |-> "cat", xs |-> <<[t |-> "alt", xs |-> <<[t |-> "str", cs |-> <<"s", "e", "n", "d">>],
      [t |-> "str", cs |-> <<"p", "r", "o", "v", "i", "d", "e">>],
      [t |-> "str", cs |-> <<"n", "e", "e", "d">>]>>], [t |-> "rep", lo |-> 1, many |-> TRUE, x |-> [t |-> "any"]], [t |-> "alt", xs |-> <<[t |-> "str", cs |-> <<"l", "e", "a", "s", "e">>],
      [t |-> "str", cs |-> <<"p", "h", "o", "t", "o">>],
      [t |-> "str", cs |-> <<"h", "e", "a", "d", "s", "h", "o", "t">>],
      [t |-> "str", cs |-> <<"p", "i", "c", "t", "u", "r", "e">>],
      [t |-> "str", cs |-> <<"b", "c">>],
      [t |-> "str", cs |-> <<"b", "i", "r", "t", "h", " ", "c", "e", "r", "t", "i", "f", "i", "c", "a", "t", "e">>],
      [t |-> "str", cs |-> <<"i", "n", "v", "o", "i", "c", "e">>],
      [t |-> "str", cs |-> <<"a", "t", "t", "a", "c", "h", "m", "e", "n", "t">>],
      [t |-> "str", cs |-> <<"d", "o", "c", "u", "m", "e", "n", "t">>]>>]>>]]

ActScheduleMeeting ==
  [label |-> "Schedule meeting", icase |-> TRUE, dotall |-> FALSE,
   re |-> [t |-> "cat", xs |-> <<[t |-> "alt", xs |-> <<[t |-> "str", cs |-> <<"s", "c", "h", "e", "d", "u", "l", "e">>],
      [t |-> "str", cs |-> <<"b", "o", "o", "k">>],
      [t |-> "str", cs |-> <<"a", "r", "r", "a", "n", "g", "e">>]>>], [t |-> "rep", lo |-> 1, many |-> TRUE, x |-> [t |-> "any"]], [t |-> "alt", xs |-> <<[t |-> "str", cs |-> <<"c", "a", "l", "l">>],
      [t |-> "str", cs |-> <<"m", "e", "e", "t", "i", "n", "g">>],
      [t |-> "str", cs |-> <<"a", "p", "p", "o", "i", "n", "t", "m", "e", "n", "t">>]>>]>>]]

ActConfirmAttendance ==
  [label |-> "Confirm attendance", icase |-> TRUE, dotall |-> FALSE,
   re |-> [t |-> "cat", xs |-> <<[t |-> "alt", xs |-> <<[t |-> "str", cs |-> <<"r", "s", "v", "p">>],
      [t |-> "str", cs |-> <<"c", "o", "n", "f", "i", "r", "m">>]>>], [t |-> "rep", lo |-> 1, many |-> TRUE, x |-> [t |-> "any"]], [t |-> "alt", xs |-> <<[t |-> "str", cs |-> <<"a", "t", "t", "e", "n", "d", "a", "n", "c", "e">>],
      [t |-> "str", cs |-> <<"p", "r", "e", "s", "e", "n", "c", "e">>]>>]>>]]

NEED_ACTION_PATTERNS ==
  <<ActSendReply, ActProvideDocument, ActScheduleMeeting, ActConfirmAttendance>>

ReplyMarker ==
  [label |-> "Send reply", icase |-> TRUE, dotall |-> FALSE,
   re |-> [t |-> "cat", xs |-> <<[t |-> "bol"], [t |-> "str", cs |-> <<"r", "e", ":">>], [t |-> "space"]>>]]

\* the pattern datetime.strptime compiles for the format %a, %d %b %Y %H:%M:%S
StrptimeFormat ==
  [label |-> "date", icase |-> TRUE, dotall |-> FALSE,
   re |-> [t |-> "cat", xs |-> <<[t |-> "alt", xs |-> <<[t |-> "str", cs |-> <<"m", "o", "n">>],
      [t |-> "str", cs |-> <<"t", "u", "e">>],
      [t |-> "str", cs |-> <<"w", "e", "d">>],
      [t |-> "str", cs |-> <<"t", "h", "u">>],
      [t |-> "str", cs |-> <<"f", "r", "i">>],
      [t |-> "str", cs |-> <<"s", "a", "t">>],
      [t |-> "str", cs |-> <<"s", "u", "n">>]>>], [t |-> "str", cs |-> <<",">>], [t |-> "rep", lo |-> 1, many |-> TRUE, x |-> [t |-> "space"]], [t |-> "alt", xs |-> <<[t |-> "cat", xs |-> <<[t |-> "str", cs |-> <<"3">>], [t |-> "in", cs |-> {"0", "1"}]>>],
      [t |-> "cat", xs |-> <<[t |-> "in", cs |-> {"1", "2"}], [t |-> "in", cs |-> {"0", "1", "2", "3", "4", "5", "6", "7", "8", "9"}]>>],
      [t |-> "cat", xs |-> <<[t |-> "str", cs |-> <<"0">>], [t |-> "in", cs |-> {"1", "2", "3", "4", "5", "6", "7", "8", "9"}]>>],
      [t |-> "in", cs |-> {"1", "2", "3", "4", "5", "6", "7", "8", "9"}],
      [t |-> "cat", xs |-> <<[t |-> "str", cs |-> <<" ">>], [t |-> "in", cs |-> {"1", "2", "3", "4", "5", "6", "7", "8", "9"}]>>]>>], [t |-> "rep", lo |-> 1, many |-> TRUE, x |-> [t |-> "space"]], [t |-> "alt", xs |-> <<[t |-> "str", cs |-> <<"j", "a", "n">>],
      [t |-> "str", cs |-> <<"f", "e", "b">>],
      [t |-> "str", cs |-> <<"m", "a", "r">>],
      [t |-> "str", cs |-> <<"a", "p", "r">>],
      [t |-> "str", cs |-> <<"m", "a", "y">>],
      [t |-> "str", cs |-> <<"j", "u", "n">>],
      [t |-> "str", cs |-> <<"j", "u", "l">>],
      [t |-> "str", cs |-> <<"a", "u", "g">>],
      [t |-> "str", cs |-> <<"s", "e", "p">>],
      [t |-> "str", cs |-> <<"o", "c", "t">>],
      [t |-> "str", cs |-> <<"n", "o", "v">>],
      [t |-> "str", cs |-> <<"d", "e", "c">>]>>], [t |-> "rep", lo |-> 1, many |-> TRUE, x |-> [t |-> "space"]], [t |-> "cat", xs |-> <<[t |-> "in", cs |-> {"0", "1", "2", "3", "4", "5", "6", "7", "8", "9"}], [t |-> "in", cs |-> {"0", "1", "2", "3", "4", "5", "6", "7", "8", "9"}], [t |-> "in", cs |-> {"0", "1", "2", "3", "4", "5", "6", "7", "8", "9"}], [t |-> "in", cs |-> {"0", "1", "2", "3", "4", "5", "6", "7", "8", "9"}]>>], [t |-> "rep", lo |-> 1, many |-> TRUE, x |-> [t |-> "space"]], [t |-> "alt", xs |-> <<[t |-> "cat", xs |-> <<[t |-> "str", cs |-> <<"2">>], [t |-> "in", cs |-> {"0", "1", "2", "3"}]>>],
      [t |-> "cat", xs |-> <<[t |-> "in", cs |-> {"0", "1"}], [t |-> "in", cs |-> {"0", "1", "2", "3", "4", "5", "6", "7", "8", "9"}]>>],
      [t |-> "in", cs |-> {"0", "1", "2", "3", "4", "5", "6", "7", "8", "9"}]>>], [t |-> "str", cs |-> <<":">>], [t |-> "alt", xs |-> <<[t |-> "cat", xs |-> <<[t |-> "in", cs |-> {"0", "1", "2", "3", "4", "5"}], [t |-> "in", cs |-> {"0", "1", "2", "3", "4", "5", "6", "7", "8", "9"}]>>],
      [t |-> "in", cs |-> {"0", "1", "2", "3", "4", "5", "6", "7", "8", "9"}]>>], [t |-> "str", cs |-> <<":">>], [t |-> "alt", xs |-> <<[t |-> "cat", xs |-> <<[t |-> "str", cs |-> <<"6">>], [t |-> "in", cs |-> {"0", "1"}]>>],
      [t |-> "cat", xs |-> <<[t |-> "in", cs |-> {"0", "1", "2", "3", "4", "5"}], [t |-> "in", cs |-> {"0", "1", "2", "3", "4", "5", "6", "7", "8", "9"}]>>],
      [t |-> "in", cs |-> {"0", "1", "2", "3", "4", "5", "6", "7", "8", "9"}]>>]>>]]

\* the title prefix main tests subjects against
SELF_PREFIX == <<"U1F4EC", " ", "G", "m", "a", "i", "l", " ", "D", "a", "i", "l", "y", " ", "D", "i", "g", "e", "s", "t">>

\* summarise's sentinel
NOT_AVAILABLE == <<"S", "u", "m", "m", "a", "r", "y", " ", "n", "o", "t", " ", "a", "v", "a", "i", "l", "a", "b", "l", "e", ".">>

\* placeholder=" ..." of both textwrap.shorten calls
PLACEHOLDER == <<" ", "U2026">>

\* the separator of the f-strings
SP == <<" ">>

(***************************************************************************)
(* The mailbox of the model: the texts messages are made of.               *)
(***************************************************************************)
S_Soccer == <<"S", "o", "c", "c", "e", "r", " ", "t", "r", "y", "o", "u", "t", "s", " ", "S", "a", "t", "u", "r", "d", "a", "y">>

S_Invoice == <<"I", "n", "v", "o", "i", "c", "e", " ", "#", "4", "5", "2", "1">>

S_ReBudget == <<"R", "e", ":", " ", "B", "u", "d", "g", "e", "t", " ", "q", "u", "e", "s", "t", "i", "o", "n">>

S_SelfDigest == <<"U1F4EC", " ", "G", "m", "a", "i", "l", " ", "D", "a", "i", "l", "y", " ", "D", "i", "g", "e", "s", "t", " ", "U2014", " ", "0", "1", "/", "1", "1", "/", "2", "0", "2", "6">>

F_Coach == <<"c", "o", "a", "c", "h", "@", "c", "l", "u", "b", ".", "o", "r", "g">>

F_Billing == <<"b", "i", "l", "l", "i", "n", "g", "@", "a", "c", "m", "e", ".", "c", "o", "m">>

F_Lucas == <<"l", "u", "c", "a", "s", "@", "h", "o", "m", "e", ".", "n", "e", "t">>

F_Me == <<"m", "e", "@", "g", "m", "a", "i", "l", ".", "c", "o", "m">>

T_Field == <<"S", "e", "e", " ", "y", "o", "u", " ", "a", "t", " ", "t", "h", "e", " ", "f", "i", "e", "l", "d">>

T_PleaseReply == <<"P", "l", "e", "a", "s", "e", " ", "r", "e", "p", "l", "y", " ", "t", "o", " ", "c", "o", "n", "f", "i", "r", "m", " ", "r", "e", "c", "e", "i", "p", "t">>

T_Thanks == <<"T", "h", "a", "n", "k", "s">>

D_Good == <<"M", "o", "n", ",", " ", "0", "2", " ", "N", "o", "v", " ", "2", "0", "2", "6", " ", "1", "0", ":", "0", "0", ":", "0", "0", " ", "+", "0", "0", "0", "0">>

D_Bad == <<"2", " ", "N", "o", "v", " ", "2", "0", "2", "6", " ", "1", "0", ":", "0", "0", ":", "0", "0", " ", "+", "0", "0", "0", "0">>

A_Pdf == <<"i", "n", "v", ".", "p", "d", "f">>

G_Synopsis == <<"A", " ", "s", "h", "o", "r", "t", " ", "s", "y", "n", "o", "p", "s", "i", "s", ".">>

(***************************************************************************)
(* The pieces the arguments of the functions applied on their own are      *)
(* put together from.                                                      *)
(***************************************************************************)
K_Pai == <<"p", "a", "i">>

K_Nt == <<"n", "t">>

K_Mae == <<"M", "A~", "E">>

K_Lucas == <<"L", "u", "c", "a", "s">>

K_Newsletter == <<"N", "e", "w", "s", "l", "e", "t", "t", "e", "r">>

K_X == <<"x">>

K_Re1 == <<"R", "e", ":">>

K_Re2 == <<"R", "E", ":">>

K_Tab == <<"\t">>

K_Budget == <<"B", "u", "d", "g", "e", "t">>

K_PleaseReply == <<"P", "l", "e", "a", "s", "e", " ", "r", "e", "p", "l", "y">>

K_NeedPhoto == <<"W", "e", " ", "n", "e", "e", "d", " ", "y", "o", "u", "r", " ", "p", "h", "o", "t", "o">>

K_AllFine == <<"A", "l", "l", " ", "f", "i", "n", "e">>

K_Confirm == <<"c", "o", "n", "f", "i", "r", "m">>

F_Plain == <<"a", "@", "b", ".", "c", "o">>

F_Hbr == <<"n", "e", "w", "s", "@", "h", "b", "r", ".", "o", "r", "g">>

F_Work == <<"j", "o", "e", "@", "a", "r", "c", "e", "l", "o", "r", "m", "i", "t", "t", "a", "l", ".", "c", "o", "m">>

K_Quarterly == <<"Q", "u", "a", "r", "t", "e", "r", "l", "y", " ", "R", "e", "p", "o", "r", "t">>

K_Finance == <<" ", "o", "f", " ", "t", "h", "e", " ", "F", "i", "n", "a", "n", "c", "e", " ", "D", "e", "p", "t">>

K_Bang == <<"!">>

K_Echo == <<"q", "u", "a", "r", "t", "e", "r", "l", "y", "r", "e", "p", "o", "r", "t">>

K_Department == <<" ", "O", "f", " ", "T", "h", "e", " ", "F", "i", "n", "a", "n", "c", "e", " ", "D", "e", "p", "a", "r", "t", "m", "e", "n", "t">>

K_Attached == <<" ", "i", "s", " ", "a", "t", "t", "a", "c", "h", "e", "d", ".">>

K_Numbers == <<"N", "u", "m", "b", "e", "r", "s", " ", "a", "r", "e", " ", "i", "n", ".">>

T_Blank == <<" ", " ", "\n">>

T_Body == <<"B", "o", "d", "y", " ", "t", "e", "x", "t", " ", "h", "e", "r", "e">>

\* m["date"][:25]
DATE_CUT == 25

\* subj_norm[:30]
PREFIX_LEN == 30

\* textwrap.shorten(text, width=180, ...)
FALLBACK_WIDTH == 180

(***************************************************************************)
(* Helpers of str and textwrap.                                            *)
(***************************************************************************)
\* str.strip(): from the first to the last non-whitespace character
Strip(s) ==
  LET ink == {k \in 1..Len(s) : s[k] \notin SpaceChars}
  IN  IF ink = {} THEN <<>>
      ELSE SubSeq(s, CHOOSE k \in ink : \A j \in ink : k <= j,
                     CHOOSE k \in ink : \A j \in ink : j <= k)

\* re.sub(r"\W+", "", s.lower())
Normalise(s) == SelectSeq(Lower(s), LAMBDA c : c \in WordChars)

\* " ".join(s.split()): every run of whitespace inside the text becomes one
\* space, leading and trailing whitespace goes
Collapse(s) ==
  LET t == Strip(s)
      keep == SelectSeq([k \in 1..Len(t) |-> k],
                        LAMBDA k : t[k] \notin SpaceChars \/ t[k - 1] \notin SpaceChars)
  IN  [n \in 1..Len(keep) |-> IF t[keep[n]] \in SpaceChars THEN " " ELSE t[keep[n]]]

\* textwrap.shorten(text, width=width, placeholder=" ...") for text free of
\* hyphens: whitespace is collapsed; a text that fits is returned whole;
\* otherwise the longest run of leading words that leaves room for the
\* placeholder is kept and the placeholder appended (alone, left-stripped,
\* when not even the first word fits).
Shorten(text, width) ==
  LET whole == Collapse(text)
      ends == {j \in 1..Len(whole) :
                 whole[j] # " " /\ (j = Len(whole) \/ whole[j + 1] = " ")}
      fits == {j \in ends : j + Len(PLACEHOLDER) <= width}
  IN  IF Len(whole) <= width THEN whole
      ELSE IF fits = {} THEN Strip(PLACEHOLDER)
      ELSE SubSeq(whole, 1, CHOOSE j \in fits : \A i \in fits : i <= j) \o PLACEHOLDER

\* Python's `a or b` on str
OrElse(a, b) == IF a # <<>> THEN a ELSE b

(***************************************************************************)
(* summarise(subject, text).  gen is what the external generation call     *)
(* does when it is made: [ok |-> TRUE, content |-> str] or [ok |-> FALSE]  *)
(* (the call, or reading its reply, raises).  The result records whether   *)
(* the call was made, whether the exception is re-raised, and the summary. *)
(***************************************************************************)
\* faulty variant: the fallback is taken without the `subj_norm and` test
SummariseNoGuard(subject, text, gen) ==
  IF text = <<>> THEN [called |-> FALSE, raised |-> FALSE, value |-> NOT_AVAILABLE]
  ELSE IF ~gen.ok THEN [called |-> TRUE, raised |-> TRUE, value |-> <<>>]
  ELSE LET summary == Strip(gen.content)
           subj_norm == Normalise(subject)
           summ_norm == Normalise(summary)
       IN  [called |-> TRUE, raised |-> FALSE,
            value |-> IF StartsWith(summ_norm, Prefix(subj_norm, PREFIX_LEN))
                      THEN OrElse(Shorten(text, FALLBACK_WIDTH), NOT_AVAILABLE)
                      ELSE summary]

\* faulty variant: a failed generation call is swallowed, not re-raised
SummariseSwallow(subject, text, gen) ==
  IF text = <<>> \/ ~gen.ok
  THEN [called |-> text # <<>>, raised |-> FALSE, value |-> NOT_AVAILABLE]
  ELSE LET summary == Strip(gen.content)
           subj_norm == Normalise(subject)
           summ_norm == Normalise(summary)
       IN  [called |-> TRUE, raised |-> FALSE,
            value |-> IF subj_norm # <<>>
                         /\ StartsWith(summ_norm, Prefix(subj_norm, PREFIX_LEN))
                      THEN OrElse(Shorten(text, FALLBACK_WIDTH), NOT_AVAILABLE)
                      ELSE summary]

summarise(subject, text, gen) ==
  IF text = <<>> THEN [called |-> FALSE, raised |-> FALSE, value |-> NOT_AVAILABLE]
  ELSE IF ~gen.ok THEN [called |-> TRUE, raised |-> TRUE, value |-> <<>>]
  ELSE LET summary == Strip(gen.content)
           subj_norm == Normalise(subject)
           summ_norm == Normalise(summary)
       IN  [called |-> TRUE, raised |-> FALSE,
            value |-> IF subj_norm # <<>>
                         /\ StartsWith(summ_norm, Prefix(subj_norm, PREFIX_LEN))
                      THEN OrElse(Shorten(text, FALLBACK_WIDTH), NOT_AVAILABLE)
                      ELSE summary]

(***************************************************************************)
(* categorise(meta) and detect_followup(meta, summary).                    *)
(***************************************************************************)
RECURSIVE FirstMatch(_, _, _, _)
\* the `for label, pat in rules: if pat.search(hay): return label` loop
FirstMatch(rules, k, hay, default) ==
  IF k > Len(rules) THEN default
  ELSE IF Search(rules[k], hay) THEN rules[k].label
  ELSE FirstMatch(rules, k + 1, hay, default)

RECURSIVE LastMatch(_, _, _, _)
\* faulty variant of the loop: the last matching rule wins
LastMatch(rules, k, hay, default) ==
  IF k = 0 THEN default
  ELSE IF Search(rules[k], hay) THEN rules[k].label
  ELSE LastMatch(rules, k - 1, hay, default)

\* the f-string "{subject} {from}".lower()
CategoriseHay(meta) == Lower(meta.subject \o SP \o meta.from)

CategoriseLastWins(meta) ==
  LastMatch(CATEGORY_RULES, Len(CATEGORY_RULES), CategoriseHay(meta), "Other")

categorise(meta) == FirstMatch(CATEGORY_RULES, 1, CategoriseHay(meta), "Other")

\* the f-string "{subject} {summary} {snippet}"
FollowupHay(meta, summary) == meta.subject \o SP \o summary \o SP \o meta.snippet

\* faulty variant: the reply marker needs no whitespace after it
DetectFollowupNoSpace(meta, summary) ==
  LET act == FirstMatch(NEED_ACTION_PATTERNS, 1, FollowupHay(meta, summary), "None")
  IN  IF act # "None" THEN [need |-> TRUE, act |-> act]
      ELSE IF StartsWith(Lower(meta.subject), <<"r", "e", ":">>)
           THEN [need |-> TRUE, act |-> "Send reply"]
           ELSE [need |-> FALSE, act |-> "None"]

detect_followup(meta, summary) ==
  LET act == FirstMatch(NEED_ACTION_PATTERNS, 1, FollowupHay(meta, summary), "None")
  IN  IF act # "None" THEN [need |-> TRUE, act |-> act]
      ELSE IF Search(ReplyMarker, meta.subject)
           THEN [need |-> TRUE, act |-> "Send reply"]
           ELSE [need |-> FALSE, act |-> "None"]

(***************************************************************************)
(* build_digest(groups).  groups is the dict in insertion order: a         *)
(* sequence of [cat, items].  A card keeps the fields the HTML is rendered *)
(* from; of the date only whether one is shown.                            *)
(***************************************************************************)
DigitSeq == <<"0", "1", "2", "3", "4", "5", "6", "7", "8", "9">>

RECURSIVE Decimal(_)
\* str(n) for n >= 0
Decimal(n) ==
  IF n < 10 THEN <<DigitSeq[n + 1]>> ELSE Decimal(n \div 10) \o <<DigitSeq[(n % 10) + 1]>>

\* f"[{ref_no:02d}]"
RefTag(n) == <<"[">> \o (IF n < 10 THEN <<"0">> ELSE <<>>) \o Decimal(n) \o <<"]">>

\* whether strptime(m["date"][:25], "%a, %d %b %Y %H:%M:%S") returns: the
\* compiled pattern must match and leave nothing unconverted (the fields
\* must also form a date and a time of day, as those of the model do)
DateParses(date) ==
  LET h == Lower(Prefix(date, DATE_CUT))
  IN  Len(h) \in Ends(StrptimeFormat.re, h, 0, FALSE)

EmptyDigest == [ref_no |-> 1, sections |-> <<>>, attachments |-> <<>>, followups |-> <<>>]

RECURSIVE DigestItems(_, _, _, _)
\* the `for m in items` loop; seg collects the group's cards
DigestItems(items, k, seg, acc) ==
  IF k > Len(items) THEN [acc EXCEPT !.sections = Append(@, seg)]
  ELSE LET m == items[k]
           ref == RefTag(acc.ref_no)
           card == [ref |-> ref, id |-> m.id, subject |-> m.subject, from |-> m.from,
                    dated |-> DateParses(m.date), summary |-> m.summary]
           fu == detect_followup(m, m.summary)
       IN  DigestItems(items, k + 1, [seg EXCEPT !.cards = Append(@, card)],
             [acc EXCEPT
                !.attachments = @ \o [j \in 1..Len(m.attachments) |->
                                        [file |-> m.attachments[j], ref |-> ref, from |-> m.from]],
                !.followups = IF fu.need /\ fu.act # "None"
                              THEN Append(@, [ref |-> ref, action |-> fu.act,
                                              subject |-> m.subject])
                              ELSE @,
                !.ref_no = @ + 1])

RECURSIVE DigestGroups(_, _, _)
\* the `for cat, items in groups.items()` loop
DigestGroups(groups, g, acc) ==
  IF g > Len(groups) THEN acc
  ELSE IF groups[g].items = <<>> THEN DigestGroups(groups, g + 1, acc)
  ELSE DigestGroups(groups, g + 1,
         DigestItems(groups[g].items, 1, [cat |-> groups[g].cat, cards |-> <<>>], acc))

RECURSIVE DigestGroupsPerGroup(_, _, _)
\* faulty variant: ref_no starts again at 1 in every group
DigestGroupsPerGroup(groups, g, acc) ==
  IF g > Len(groups) THEN acc
  ELSE IF groups[g].items = <<>> THEN DigestGroupsPerGroup(groups, g + 1, acc)
  ELSE DigestGroupsPerGroup(groups, g + 1,
         DigestItems(groups[g].items, 1, [cat |-> groups[g].cat, cards |-> <<>>],
                     [acc EXCEPT !.ref_no = 1]))

BuildDigestRestart(groups) == DigestGroupsPerGroup(groups, 1, EmptyDigest)

build_digest(groups) == DigestGroups(groups, 1, EmptyDigest)

\* groups.setdefault(cat, []).append(m)
GroupAppend(groups, cat, m) ==
  IF \E g \in 1..Len(groups) : groups[g].cat = cat
  THEN [g \in 1..Len(groups) |->
          IF groups[g].cat = cat THEN [groups[g] EXCEPT !.items = Append(@, m)]
          ELSE groups[g]]
  ELSE Append(groups, [cat |-> cat, items |-> <<m>>])

RECURSIVE GroupAll(_, _, _)
\* groups = {}; for m in metas: groups.setdefault(categorise(m), []).append(m)
GroupAll(ms, k, groups) ==
  IF k > Len(ms) THEN groups
  ELSE GroupAll(ms, k + 1, GroupAppend(groups, categorise(ms[k]), ms[k]))

(***************************************************************************)
(* Bounds of the model.                                                    *)
(***************************************************************************)
\* the most message ids list_msg_ids returns in a run
MaxMsgs == 3

(***************************************************************************)
(* One run of the script: main under the handlers of the __main__ block.   *)
(***************************************************************************)
VARIABLES
  pc,        \* where the run is: "start", "list", "loop", "send", "notion", "done", "failed"
  notionOn,  \* NOTION_SECRET and NOTION_DB_ID are both set
  nIds,      \* len(msg_ids)
  fetched,   \* the messages fetch_full has returned, in fetch order
  loop,      \* the loop's locals: metas, seen, and the generation calls made so far
  groups,    \* main's groups dict, in insertion order
  digest,    \* what build_digest returned
  sent,      \* emails the send call has delivered
  logged,    \* pages the note service has created
  printed,   \* the line the run ends with
  fnName,    \* a function applied on its own: which one,
  fnArg,     \*   its arguments,
  fnRes      \*   and its result once it has returned

vars == <<pc, notionOn, nIds, fetched, loop, groups, digest, sent, logged, printed,
          fnName, fnArg, fnRes>>

mainVars == <<pc, notionOn, nIds, fetched, loop, groups, digest, sent, logged, printed>>

fnVars == <<fnName, fnArg, fnRes>>

\* what fetch_full, meta_from_full and extract_plain_text make of a message:
\* the header fields, the snippet, the attachment names and the body text
Mailbox ==
  { [subject |-> S_Soccer, from |-> F_Coach, date |-> D_Good, snippet |-> T_Field,
     text |-> T_Field, attachments |-> <<>>],
    [subject |-> S_Soccer, from |-> F_Lucas, date |-> D_Bad, snippet |-> T_Thanks,
     text |-> <<>>, attachments |-> <<>>],
    [subject |-> S_Invoice, from |-> F_Billing, date |-> D_Bad, snippet |-> <<>>,
     text |-> T_PleaseReply, attachments |-> <<A_Pdf>>],
    [subject |-> S_ReBudget, from |-> F_Lucas, date |-> D_Good, snippet |-> T_Thanks,
     text |-> T_Thanks, attachments |-> <<>>],
    [subject |-> S_SelfDigest, from |-> F_Me, date |-> D_Good, snippet |-> T_Thanks,
     text |-> T_Thanks, attachments |-> <<>>] }

\* what the generation call can do: raise, or return a text
GenOutcomes == {[ok |-> FALSE], [ok |-> TRUE, content |-> G_Synopsis]}

NotReturned == [done |-> FALSE, value |-> <<>>]

NoLoop == [metas |-> <<>>, seen |-> {}, calls |-> <<>>, raised |-> FALSE]

\* meta_from_full(full), with the position in msg_ids as the id
MetaFromFull(mid, full) ==
  [id |-> mid, subject |-> full.subject, from |-> full.from, date |-> full.date,
   snippet |-> full.snippet, attachments |-> full.attachments]

\* the test `meta["subject"].startswith(...)` of the loop
IsSelfDigest(subject) == StartsWith(subject, SELF_PREFIX)

\* One pass of the body of `for mid in msg_ids`, after fetch_full returned
\* `full`; gen is what the generation call does if summarise makes it.
\* faulty variant: no duplicate filter
IterStepNoSeen(lp, mid, full, gen) ==
  LET meta == MetaFromFull(mid, full)
      body_text == OrElse(OrElse(full.text, meta.snippet), meta.subject)
      r == summarise(meta.subject, body_text, gen)
      calls2 == IF r.called THEN Append(lp.calls, [mid |-> mid, ok |-> gen.ok]) ELSE lp.calls
  IN  IF IsSelfDigest(meta.subject) THEN lp
      ELSE IF r.raised THEN [lp EXCEPT !.calls = calls2, !.raised = TRUE]
      ELSE [lp EXCEPT !.calls = calls2,
                      !.metas = Append(@, meta @@ [summary |-> r.value])]

\* faulty variant: no self-digest filter
IterStepNoSelfTest(lp, mid, full, gen) ==
  LET meta == MetaFromFull(mid, full)
      body_text == OrElse(OrElse(full.text, meta.snippet), meta.subject)
      r == summarise(meta.subject, body_text, gen)
      seen2 == lp.seen \cup {meta.subject}
      calls2 == IF r.called THEN Append(lp.calls, [mid |-> mid, ok |-> gen.ok]) ELSE lp.calls
  IN  IF meta.subject \in lp.seen THEN lp
      ELSE IF r.raised THEN [lp EXCEPT !.seen = seen2, !.calls = calls2, !.raised = TRUE]
      ELSE [lp EXCEPT !.seen = seen2, !.calls = calls2,
                      !.metas = Append(@, meta @@ [summary |-> r.value])]

IterStep(lp, mid, full, gen) ==
  LET meta == MetaFromFull(mid, full)
      body_text == OrElse(OrElse(full.text, meta.snippet), meta.subject)
      r == summarise(meta.subject, body_text, gen)
      seen2 == lp.seen \cup {meta.subject}
      calls2 == IF r.called THEN Append(lp.calls, [mid |-> mid, ok |-> gen.ok]) ELSE lp.calls
  IN  IF IsSelfDigest(meta.subject) THEN lp
      ELSE IF meta.subject \in lp.seen THEN lp
      ELSE IF r.raised THEN [lp EXCEPT !.seen = seen2, !.calls = calls2, !.raised = TRUE]
      ELSE [lp EXCEPT !.seen = seen2, !.calls = calls2,
                      !.metas = Append(@, meta @@ [summary |-> r.value])]

\* an exception leaves main: the handlers of the __main__ block print it
Raise(line) == pc' = "failed" /\ printed' = line

Init ==
  /\ pc = "start"
  /\ notionOn \in BOOLEAN
  /\ nIds = 0
  /\ fetched = <<>>
  /\ loop = NoLoop
  /\ groups = <<>>
  /\ digest = EmptyDigest
  /\ sent = 0
  /\ logged = 0
  /\ printed = "nothing"
  /\ fnName = "none"
  /\ fnArg = <<>>
  /\ fnRes = NotReturned

\* get_credentials() and build(): return, or raise RuntimeError
GetCredentials ==
  /\ pc = "start"
  /\ \E ok \in BOOLEAN :
       IF ok THEN pc' = "list" /\ UNCHANGED printed ELSE Raise("Fatal error")
  /\ UNCHANGED <<notionOn, nIds, fetched, loop, groups, digest, sent, logged>>
  /\ UNCHANGED fnVars

\* list_msg_ids(svc, after_ts): returns the ids, or a listing call raises HttpError
ListMsgIds ==
  /\ pc = "list"
  /\ \/ \E n \in 0..MaxMsgs : nIds' = n /\ pc' = "loop" /\ UNCHANGED printed
     \/ Raise("Gmail API error") /\ UNCHANGED nIds
  /\ UNCHANGED <<notionOn, fetched, loop, groups, digest, sent, logged>>
  /\ UNCHANGED fnVars

\* one iteration of `for mid in msg_ids`: fetch_full raises HttpError, or
\* returns a message and the body runs on it
Iterate ==
  /\ pc = "loop"
  /\ Len(fetched) < nIds
  /\ \/ Raise("Gmail API error") /\ UNCHANGED <<fetched, loop>>
     \/ \E full \in Mailbox, gen \in GenOutcomes :
          LET lp == IterStep(loop, Len(fetched) + 1, full, gen)
          IN  /\ fetched' = Append(fetched, full)
              /\ loop' = lp
              /\ IF lp.raised THEN Raise("Fatal error") ELSE UNCHANGED <<pc, printed>>
  /\ UNCHANGED <<notionOn, nIds, groups, digest, sent, logged>>
  /\ UNCHANGED fnVars

\* after the loop: group the metas, build the digest and compose the email
Assemble ==
  /\ pc = "loop"
  /\ Len(fetched) = nIds
  /\ groups' = GroupAll(loop.metas, 1, <<>>)
  /\ digest' = build_digest(groups')
  /\ pc' = "send"
  /\ UNCHANGED <<notionOn, nIds, fetched, loop, sent, logged, printed>>
  /\ UNCHANGED fnVars

\* svc.users().messages().send(...).execute(): delivers the email, or raises
\* HttpError and delivers nothing
Send ==
  /\ pc = "send"
  /\ \/ sent' = sent + 1 /\ pc' = "notion" /\ UNCHANGED printed
     \/ Raise("Gmail API error") /\ UNCHANGED sent
  /\ UNCHANGED <<notionOn, nIds, fetched, loop, groups, digest, logged>>
  /\ UNCHANGED fnVars

\* add_to_notion(html_digest), then the closing print of main
AddToNotion ==
  /\ pc = "notion"
  /\ \/ /\ ~notionOn
        /\ pc' = "done" /\ printed' = "emailed & logged" /\ UNCHANGED logged
     \/ /\ notionOn
        /\ logged' = logged + 1
        /\ pc' = "done" /\ printed' = "emailed & logged"
     \/ /\ notionOn
        /\ Raise("Fatal error") /\ UNCHANGED logged
  /\ UNCHANGED <<notionOn, nIds, fetched, loop, groups, digest, sent>>
  /\ UNCHANGED fnVars

Next == GetCredentials \/ ListMsgIds \/ Iterate \/ Assemble \/ Send \/ AddToNotion

Spec == Init /\ [][Next]_vars

(***************************************************************************)
(* The functions applied on their own, to arguments drawn from bounded     *)
(* sets.                                                                   *)
(***************************************************************************)
\* the most pieces a generated text is put together from
MaxChunks == 2

\* the most groups, and the most messages in a group, build_digest is given
MaxGroups == 3

MaxItems == 2

RECURSIVE Concat(_)
Concat(ss) == IF ss = <<>> THEN <<>> ELSE Head(ss) \o Concat(Tail(ss))

\* the texts made of at most MaxChunks pieces of `chunks`
Texts(chunks) ==
  {Concat(ss) : ss \in UNION {[1..n -> chunks] : n \in 0..MaxChunks}}

CategoriseArgs ==
  [subject : Texts({K_Pai, K_Nt, SP, K_Newsletter, K_Mae, K_Lucas, K_X}),
   from : {F_Plain, F_Hbr, F_Work}]

FollowupArgs ==
  [meta : [subject : Texts({K_Re1, K_Re2, SP, K_Tab, K_Budget, K_PleaseReply}),
           snippet : {<<>>, K_Confirm}],
   summary : {<<>>, K_NeedPhoto, K_AllFine}]

\* a body text longer than the fallback width: four-letter words, one space apart
LongText == [k \in 1..(FALLBACK_WIDTH + 20) |-> IF k % 5 = 0 THEN " " ELSE "w"]

SummariseArgs ==
  [subject : Texts({K_Quarterly, K_Finance, K_Bang}),
   text : {<<>>, T_Blank, T_Body, LongText},
   gen : {[ok |-> FALSE]}
         \cup {[ok |-> TRUE, content |-> c] :
                 c \in Texts({K_Echo, K_Department, K_Attached, K_Numbers})}]

\* the two kinds of message a group is filled with: one whose date does not
\* parse, with an attachment and a request to reply; one dated well
ItemKinds ==
  << [subject |-> S_Invoice, from |-> F_Billing, date |-> D_Bad, snippet |-> <<>>,
      attachments |-> <<A_Pdf>>, summary |-> T_PleaseReply],
     [subject |-> S_Soccer, from |-> F_Coach, date |-> D_Good, snippet |-> T_Field,
      attachments |-> <<>>, summary |-> G_Synopsis] >>

DigestCats == <<"Family", "Activities", "Bills & Finance", "Work", "Personal">>

\* dicts of at most MaxGroups categories (distinct keys, starting anywhere
\* in DigestCats), each with at most MaxItems messages, possibly none; the
\* kinds alternate and the ids number the messages
DigestArgs ==
  LET keys == {[g \in 1..n |-> DigestCats[((first + g - 2) % Len(DigestCats)) + 1]] :
                 n \in 0..MaxGroups, first \in 1..Len(DigestCats)}
  IN  UNION {{[g \in 1..Len(ks) |->
                 [cat |-> ks[g],
                  items |-> [k \in 1..size[g] |->
                               ItemKinds[((g + k) % 2) + 1]
                                 @@ [id |-> (MaxItems + 1) * g + k]]]] :
               size \in [1..Len(ks) -> 0..MaxItems]} : ks \in keys}

InitFn ==
  /\ pc = "start"
  /\ notionOn = FALSE
  /\ nIds = 0
  /\ fetched = <<>>
  /\ loop = NoLoop
  /\ groups = <<>>
  /\ digest = EmptyDigest
  /\ sent = 0
  /\ logged = 0
  /\ printed = "nothing"
  /\ fnRes = NotReturned
  /\ \/ fnName = "categorise" /\ fnArg \in CategoriseArgs
     \/ fnName = "detect_followup" /\ fnArg \in FollowupArgs
     \/ fnName = "summarise" /\ fnArg \in SummariseArgs
     \/ fnName = "build_digest" /\ fnArg \in DigestArgs

Return(v) ==
  /\ ~fnRes.done
  /\ fnRes' = [done |-> TRUE, value |-> v]
  /\ UNCHANGED <<fnName, fnArg>>
  /\ UNCHANGED mainVars

CallCategorise == fnName = "categorise" /\ Return(categorise(fnArg))

CallDetectFollowup ==
  fnName = "detect_followup" /\ Return(detect_followup(fnArg.meta, fnArg.summary))

CallSummarise ==
  fnName = "summarise" /\ Return(summarise(fnArg.subject, fnArg.text, fnArg.gen))

CallBuildDigest == fnName = "build_digest" /\ Return(build_digest(fnArg))

NextFn == CallCategorise \/ CallDetectFollowup \/ CallSummarise \/ CallBuildDigest

SpecFn == InitFn /\ [][NextFn]_vars

(***************************************************************************)
(* Properties of a run: invariants of Spec.                                 *)
(***************************************************************************)
Min(S) == CHOOSE k \in S : \A j \in S : k <= j

\* the digest has been built from the groups
Built == pc \in {"send", "notion", "done"}

GroupItems == UNION {{groups[g].items[k] : k \in 1..Len(groups[g].items)} : g \in 1..Len(groups)}

GroupItemCount(s) ==
  Cardinality({<<g, k>> \in (1..Len(groups)) \X (1..MaxMsgs) :
                 k <= Len(groups[g].items) /\ groups[g].items[k].subject = s})

\* positions of the fetched messages that pass both filters of the loop
Passing ==
  {k \in 1..Len(fetched) :
     /\ ~StartsWith(fetched[k].subject, SELF_PREFIX)
     /\ \A j \in 1..(k - 1) : fetched[j].subject # fetched[k].subject}

\* C1: among the fetched messages that share a subject (not a self-digest),
\* exactly one is in metas, and once the groups are built exactly one is in
\* the groups: the first of them in fetch order.  (A run that a failed
\* summarisation aborted never gets to group anything.)
C1_FirstOfSubjectSurvives ==
  ~loop.raised =>
    \A s \in {fetched[k].subject : k \in 1..Len(fetched)} :
      ~StartsWith(s, SELF_PREFIX) =>
        LET first == Min({k \in 1..Len(fetched) : fetched[k].subject = s})
            kept == {j \in 1..Len(loop.metas) : loop.metas[j].subject = s}
        IN  /\ Cardinality(kept) = 1
            /\ \A j \in kept : loop.metas[j].id = first
            /\ Built => /\ GroupItemCount(s) = 1
                        /\ \A m \in GroupItems : m.subject = s => m.id = first

\* a finished run in which the second message repeated the first one's
\* subject from another sender and was dropped
C1_Witness ==
  /\ pc = "done"
  /\ Len(fetched) >= 2
  /\ fetched[1].subject = fetched[2].subject
  /\ fetched[1].from # fetched[2].from
  /\ Len(loop.metas) = 1
  /\ loop.metas[1].from = fetched[1].from
  /\ \E m \in GroupItems : m.id = 1

\* C2: a failed run has sent no email and a run that completed has sent
\* exactly one, whichever step fails.
C2_FailedRunSendsNothing ==
  /\ pc = "failed" => sent = 0
  /\ pc = "done" => sent = 1

\* C6: a fetched message whose subject starts with the digest's own title is
\* never summarised, never in metas, the groups or the digest, and its
\* subject is not marked seen.
C6_SelfDigestExcluded ==
  \A k \in 1..Len(fetched) :
    StartsWith(fetched[k].subject, SELF_PREFIX) =>
      /\ \A j \in 1..Len(loop.metas) : loop.metas[j].id # k
      /\ \A c \in 1..Len(loop.calls) : loop.calls[c].mid # k
      /\ fetched[k].subject \notin loop.seen
      /\ \A m \in GroupItems : m.id # k
      /\ \A g \in 1..Len(digest.sections) :
           \A c \in 1..Len(digest.sections[g].cards) : digest.sections[g].cards[c].id # k

\* a finished run whose first message was a self-digest and whose second
\* was kept
C6_Witness ==
  /\ pc = "done"
  /\ Len(fetched) >= 2
  /\ StartsWith(fetched[1].subject, SELF_PREFIX)
  /\ Len(loop.metas) >= 1
  /\ loop.metas[1].id = 2

SectionCats(d) == [g \in 1..Len(d.sections) |-> d.sections[g].cat]

Reorderings(ms) ==
  {[k \in 1..Len(ms) |-> ms[p[k]]] :
     p \in {q \in [1..Len(ms) -> 1..Len(ms)] : \A a, b \in 1..Len(ms) : a # b => q[a] # q[b]}}

\* C9: the order of the digest's sections does not depend on the fetch
\* order: the same surviving messages in any other order give the sections
\* in the same order.
C9_SectionOrderFixed ==
  Built =>
    \A ms \in Reorderings(loop.metas) :
      SectionCats(build_digest(GroupAll(ms, 1, <<>>))) = SectionCats(digest)

\* C10: the generation call is made at most once per fetched message, in
\* fetch order, only for messages that passed both filters; and once a call
\* has failed the run is over: nothing more is fetched or summarised, no
\* email is sent and the note service is not called.
C10_CallDiscipline ==
  /\ \A a, b \in 1..Len(loop.calls) : a < b => loop.calls[a].mid < loop.calls[b].mid
  /\ \A a \in 1..Len(loop.calls) : loop.calls[a].mid \in Passing
  /\ \A a \in 1..Len(loop.calls) :
       ~loop.calls[a].ok =>
         /\ a = Len(loop.calls)
         /\ loop.calls[a].mid = Len(fetched)
         /\ pc = "failed"
         /\ sent = 0
         /\ logged = 0

\* the second call of a run failed while a message was still to be fetched
C10_Witness ==
  /\ Len(loop.calls) = 2
  /\ loop.calls[1].ok
  /\ ~loop.calls[2].ok
  /\ Len(fetched) < nIds
  /\ pc = "failed"

(***************************************************************************)
(* Properties of the functions: invariants of SpecFn.                      *)
(***************************************************************************)
Returned(f) == fnName = f /\ fnRes.done

\* the closed set of category labels
CategorySet ==
  {"Family", "School", "Activities", "Market Update", "Bills & Finance", "Housing",
   "Purchases & Offers", "Meetings & Invites", "Newsletters", "Work", "Personal", "Other"}

\* the rules that match the text categorise searches
Matching(arg) ==
  {k \in 1..Len(CATEGORY_RULES) :
     Search(CATEGORY_RULES[k], Lower(arg.subject \o <<" ">> \o arg.from))}

\* C3: categorise returns a label of the closed category set for every
\* (subject, sender), and the label of the last rule, the catch-all, only
\* when no earlier rule matches.
C3_CategoriseTotal ==
  Returned("categorise") =>
    /\ fnRes.value \in CategorySet
    /\ fnRes.value = CATEGORY_RULES[Len(CATEGORY_RULES)].label =>
         \A k \in Matching(fnArg) : k = Len(CATEGORY_RULES)

\* a message none of the ten specific rules matches got its label from a
\* fallback rule
C3_Witness ==
  /\ Returned("categorise")
  /\ fnArg.subject # <<>>
  /\ \A k \in Matching(fnArg) : CATEGORY_RULES[k].label \in {"Personal", "Other"}
  /\ fnRes.value \in {"Personal", "Other"}

\* C4: categorise returns the label of the earliest rule that matches; a
\* message the Family rule matches is Family whatever later rule matches.
C4_FirstMatchWins ==
  Returned("categorise") =>
    /\ Matching(fnArg) # {}
    /\ fnRes.value = CATEGORY_RULES[Min(Matching(fnArg))].label
    /\ Search(RuleFamily, Lower(fnArg.subject \o <<" ">> \o fnArg.from)) =>
         fnRes.value = "Family"

\* a message both the Family and the Newsletters rule match, classified Family
C4_Witness ==
  /\ Returned("categorise")
  /\ \E a, b \in Matching(fnArg) :
       CATEGORY_RULES[a].label = "Family" /\ CATEGORY_RULES[b].label = "Newsletters"
  /\ fnRes.value = "Family"

RECURSIVE Flatten(_)
Flatten(ss) == IF ss = <<>> THEN <<>> ELSE Head(ss) \o Flatten(Tail(ss))

\* C5: for N messages in the groups, build_digest numbers the cards 1..N in
\* category-then-member order: no number skipped or repeated; empty groups
\* and unparsable dates use up no number.
C5_RefNumbersSequential ==
  Returned("build_digest") =>
    LET items == Flatten([g \in 1..Len(fnArg) |-> fnArg[g].items])
        cards == Flatten([g \in 1..Len(fnRes.value.sections) |->
                            fnRes.value.sections[g].cards])
    IN  /\ Len(cards) = Len(items)
        /\ \A k \in 1..Len(cards) : cards[k].ref = RefTag(k) /\ cards[k].id = items[k].id
        /\ \A j, k \in 1..Len(cards) : j # k => cards[j].ref # cards[k].ref

\* a dict with an empty group between two non-empty ones, the first holding
\* two messages, one with a date that does not parse: the cards are
\* numbered 1, 2, 3
C5_Witness ==
  /\ Returned("build_digest")
  /\ Len(fnArg) = 3
  /\ fnArg[2].items = <<>>
  /\ Len(fnArg[1].items) = 2
  /\ \E k \in 1..2 : ~DateParses(fnArg[1].items[k].date)
  /\ Len(fnArg[3].items) = 1
  /\ Len(fnRes.value.sections) = 2
  /\ fnRes.value.sections[2].cards[1].ref = <<"[", "0", "3", "]">>

NoActionMatches(arg) ==
  \A k \in 1..Len(NEED_ACTION_PATTERNS) :
    ~Search(NEED_ACTION_PATTERNS[k],
            arg.meta.subject \o <<" ">> \o arg.summary \o <<" ">> \o arg.meta.snippet)

BeginsRe(subject) ==
  Len(subject) >= 3 /\ Lower(SubSeq(subject, 1, 3)) = <<"r", "e", ":">>

\* C7 as stated: with no action pattern matching, a subject that begins
\* with "Re:" (any case), whitespace after it or not, gives (true, "Send
\* reply"), and any other subject (false, no action).
C7_ReplyDefaultAsStated ==
  (Returned("detect_followup") /\ NoActionMatches(fnArg)) =>
    fnRes.value = IF BeginsRe(fnArg.meta.subject)
                  THEN [need |-> TRUE, act |-> "Send reply"]
                  ELSE [need |-> FALSE, act |-> "None"]

\* C7 amended: with no action pattern matching, a subject that begins with
\* "Re:" (any case) followed by a whitespace character gives (true, "Send
\* reply"), and any other subject (false, no action).
C7_ReplyDefault ==
  (Returned("detect_followup") /\ NoActionMatches(fnArg)) =>
    fnRes.value = IF /\ BeginsRe(fnArg.meta.subject)
                     /\ Len(fnArg.meta.subject) >= 4
                     /\ fnArg.meta.subject[4] \in SpaceChars
                  THEN [need |-> TRUE, act |-> "Send reply"]
                  ELSE [need |-> FALSE, act |-> "None"]

\* "RE:" and a tab, no action pattern matching: the default gives Send reply
C7_Witness ==
  /\ Returned("detect_followup")
  /\ NoActionMatches(fnArg)
  /\ fnArg.meta.subject = <<"R", "E", ":", "\t">>
  /\ fnRes.value = [need |-> TRUE, act |-> "Send reply"]

\* the generated summary (as summarise keeps it, stripped) echoes the subject
Echoes(arg) ==
  StartsWith(Normalise(Strip(arg.gen.content)), Prefix(Normalise(arg.subject), 30))

\* C8 as stated: for a non-empty body text, once generation has returned,
\* the result is the 180-character truncation of the body text whenever the
\* normalised summary starts with the first 30 characters of the normalised
\* subject, and the generated summary otherwise.
C8_DedupGuardAsStated ==
  (Returned("summarise") /\ fnArg.text # <<>> /\ fnArg.gen.ok) =>
    fnRes.value.value = IF Echoes(fnArg) THEN Shorten(fnArg.text, 180)
                        ELSE Strip(fnArg.gen.content)

\* C8 amended: the fallback is taken only when the normalised subject is
\* not empty; it is the 180-character shortening of the body text, or the
\* "Summary not available." sentence when the body text is all whitespace.
C8_DedupGuard ==
  (Returned("summarise") /\ fnArg.text # <<>> /\ fnArg.gen.ok) =>
    fnRes.value.value =
      IF Normalise(fnArg.subject) # <<>> /\ Echoes(fnArg)
      THEN (IF Shorten(fnArg.text, 180) = <<>> THEN NOT_AVAILABLE
            ELSE Shorten(fnArg.text, 180))
      ELSE Strip(fnArg.gen.content)

\* a subject of more than 30 normalised characters, a summary that repeats
\* the first 30 and then differs, a body text over 180 characters: the
\* result is the shortened body text
C8_Witness ==
  /\ Returned("summarise")
  /\ fnArg.gen.ok
  /\ Len(Normalise(fnArg.subject)) > 30
  /\ Echoes(fnArg)
  /\ ~StartsWith(Normalise(fnArg.gen.content), Normalise(fnArg.subject))
  /\ Len(fnArg.text) > 180
  /\ fnRes.value.value = Shorten(fnArg.text, 180)
  /\ Len(fnRes.value.value) <= 180
  /\ fnRes.value.value # fnArg.text

=============================================================================
